---- MODULE Spec2Model ----
(***************************************************************************)
(* A model of the px-engine core: the Surface pixel buffer (surface.cpp),  *)
(* the Color value type (color.h), the Input state (input.cpp), the main   *)
(* loop Engine::run and the drawing calls (engine.cpp), and the            *)
(* construction and destruction of Engine, Window (window.cpp) and         *)
(* Graphics (graphics.cpp).                                                *)
(*                                                                         *)
(* A 32-bit unsigned value is represented by its four bytes, most          *)
(* significant first: <<b3, b2, b1, b0>> stands for                        *)
(* b3*2^24 + b2*2^16 + b1*2^8 + b0, so 0xFF000000 is <<255, 0, 0, 0>>.     *)
(***************************************************************************)
EXTENDS Integers, Sequences, FiniteSets, TLC

VARIABLES
    \* Surface (surface.h:105-106)
    width, height, pixelBuffer,
    \* history of the Surface: the last operation applied with its arguments
    \* and the set of cells it changed, whether any
    \* in-bounds write has happened since construction, number of operations
    lastOp, everWritten, surfaceOps,
    \* Input (input.h:66-71)
    keyState, mouseState, mouseX, mouseY, keyCallback,
    \* history of the Input: every event and registration in order, and every
    \* invocation of a user key callback in order
    inputLog, calls,
    \* Engine::run (engine.cpp:36-53): position, locals, the window's
    \* close flag and the steady clock
    pc, closeFlag, now, previousTime, currentTime, deltaTime,
    \* history of the Engine: every engine event in order, the deltaTime
    \* arguments and clock readings of the current run, counters
    trace, deltas, iterStarts, setupReturnedAt, runs, frames,
    setupCalls, destroyCalls, callAfterDestroy,
    \* Graphics (graphics.h:83): the contents of the GPU texture
    texture,
    \* Engine construction and destruction (engine.cpp:27-34): position, the
    \* GLFW library, the GLFWwindow handle, the OpenGL objects of Graphics, the
    \* Graphics and Input objects, the error that left the constructor
    life, glfw, windowHandle, gpu, graphicsObj, inputObj, ctorError,
    \* history of the drawing calls of the application: what the current
    \* frame's onUpdate wrote to each cell, and the last drawing call
    frameWrites, lastDraw

surfVars  == <<width, height, pixelBuffer, lastOp, everWritten, surfaceOps>>
inputVars == <<keyState, mouseState, mouseX, mouseY, keyCallback, inputLog, calls>>
loopVars  == <<pc, closeFlag, now, previousTime, currentTime, deltaTime,
               trace, deltas, iterStarts, setupReturnedAt, runs, frames,
               setupCalls, destroyCalls, callAfterDestroy>>
gfxVars   == <<texture>>
lifeVars  == <<life, glfw, windowHandle, gpu, graphicsObj, inputObj, ctorError>>
frameVars == <<frameWrites, lastDraw>>
vars      == <<surfVars, inputVars, loopVars, gfxVars, lifeVars, frameVars>>

----------------------------------------------------------------------------
(* Bounds of the model                                                     *)

MaxWidth      == 2
MaxHeight     == 2
MaxSurfaceOps == 3
MaxRuns       == 2
MaxFrames     == 2
MaxTime       == 3
MaxInputEvents == 4
\* size of the surface on which lines are drawn
LineWidth == 6
LineHeight == 4
\* size of the surface of an Engine that runs frames with drawing calls
FrameWidth == 4
FrameHeight == 4

----------------------------------------------------------------------------
(* 32-bit and 8-bit arithmetic                                             *)

\* static_cast<uint32_t>(v) of an 8-bit value
U32(v) == <<0, 0, 0, v>>

\* w << n and w >> n on uint32_t, n a multiple of 8: bytes shifted out are lost
RECURSIVE Shl(_, _)
Shl(w, n) == IF n = 0 THEN w ELSE Shl(<<w[2], w[3], w[4], 0>>, n - 8)

RECURSIVE Shr(_, _)
Shr(w, n) == IF n = 0 THEN w ELSE Shr(<<0, w[1], w[2], w[3]>>, n - 8)

\* a | b on 8-bit values, bit by bit
RECURSIVE OrByte(_, _)
OrByte(a, b) ==
    IF a = 0 THEN b
    ELSE IF b = 0 THEN a
    ELSE 2 * OrByte(a \div 2, b \div 2) + (IF a % 2 = 1 \/ b % 2 = 1 THEN 1 ELSE 0)

\* a | b on uint32_t
Or32(a, b) == <<OrByte(a[1], b[1]), OrByte(a[2], b[2]), OrByte(a[3], b[3]), OrByte(a[4], b[4])>>

\* (w & 0xFF) narrowed to uint8_t
LowByte(w) == w[4]

\* conversion of an int to uint8_t (modulo 256)
ToU8Clamps(v) == IF v < 0 THEN 0 ELSE IF v > 255 THEN 255 ELSE v
ToU8(v) == v % 256

----------------------------------------------------------------------------
(* Color (color.h)                                                         *)

\* Color::Color(red, green, blue, alpha): value in 0xAARRGGBB format
Color(red, green, blue, alpha) ==
    Or32(Or32(Or32(Shl(U32(alpha), 24), Shl(U32(red), 16)), Shl(U32(green), 8)),
         U32(blue))

ColorR(c) == LowByte(Shr(c, 16))
ColorG(c) == LowByte(Shr(c, 8))
ColorB(c) == LowByte(c)
ColorA(c) == LowByte(Shr(c, 24))

\* Color::Black{0, 0, 0} with the default alpha of 255
ColorBlack == Color(0, 0, 0, 255)

----------------------------------------------------------------------------
(* Surface (surface.cpp)                                                   *)

\* 0xFF000000, the fill value of the constructor and of clear()
OpaqueBlack == <<255, 0, 0, 0>>

\* the guard of setPixel and getPixel: not (x < 0 || x >= width || y < 0 || y >= height)
InBoundsLinear(x, y) == y * width + x >= 0 /\ y * width + x < width * height
InBounds(x, y) == ~(x < 0 \/ x >= width \/ y < 0 \/ y >= height)

\* const int index = y * width + x
Index(x, y) == y * width + x

\* the 32-bit pixel built by setPixel(x, y, Color)
PackColorSwapped(color) ==
    Or32(Or32(Or32(Shl(U32(ColorA(color)), 24), Shl(U32(ColorB(color)), 16)),
              Shl(U32(ColorG(color)), 8)),
         U32(ColorR(color)))
PackColor(color) ==
    Or32(Or32(Or32(Shl(U32(ColorA(color)), 24), Shl(U32(ColorR(color)), 16)),
              Shl(U32(ColorG(color)), 8)),
         U32(ColorB(color)))

\* the 32-bit pixel built by setPixel(x, y, uint8_t r, uint8_t g, uint8_t b)
PackRGB(r, g, b) ==
    Or32(Or32(Or32(Shl(U32(255), 24), Shl(U32(r), 16)), Shl(U32(g), 8)), U32(b))

\* Surface::getPixel, reading the buffer buf
GetPixelOf(buf, x, y) ==
    IF ~InBounds(x, y) THEN ColorBlack
    ELSE LET pixel == buf[Index(x, y)]
             a == LowByte(Shr(pixel, 24))
             r == LowByte(Shr(pixel, 16))
             g == LowByte(Shr(pixel, 8))
             b == LowByte(pixel)
         IN  Color(r, g, b, a)

GetPixel(x, y) == GetPixelOf(pixelBuffer, x, y)

\* Surface::Surface: width*height cells of 0xFF000000
NewBuffer(w, h) == [i \in 0..(w * h - 1) |-> OpaqueBlack]

\* Surface::clear: std::ranges::fill(pixelBuffer, 0xFF000000)
ClearedTransparent(buf) == [i \in DOMAIN buf |-> <<0, 0, 0, 0>>]
Cleared(buf) == [i \in DOMAIN buf |-> OpaqueBlack]

\* inputs of the Surface operations: coordinates one cell beyond every edge,
\* colours as (r, g, b, a) and as (r, g, b)
XCoords     == -1..width
YCoords     == -1..height
ColorInputs == {<<1, 2, 3, 4>>, <<200, 100, 50, 0>>}
RGBInputs   == {<<16, 32, 64>>}
NoColor     == <<>>

\* the indices of the cells an operation changed (history only)
ChangedCells(old, new) == {i \in DOMAIN old : new[i] # old[i]}

\* Surface::clear()
SurfaceClear ==
    /\ surfaceOps < MaxSurfaceOps
    /\ pixelBuffer' = Cleared(pixelBuffer)
    /\ lastOp' = [op |-> "clear", x |-> 0, y |-> 0, color |-> NoColor,
                 changed |-> ChangedCells(pixelBuffer, pixelBuffer')]
    /\ surfaceOps' = surfaceOps + 1
    /\ UNCHANGED <<width, height, everWritten>>

\* Surface::setPixel(x, y, Color(r, g, b, a))
SetPixelColor(x, y, r, g, b, a) ==
    LET color == Color(r, g, b, a) IN
    /\ surfaceOps < MaxSurfaceOps
    /\ IF InBounds(x, y)
       THEN /\ pixelBuffer' = [pixelBuffer EXCEPT ![Index(x, y)] = PackColor(color)]
            /\ everWritten' = TRUE
       ELSE UNCHANGED <<pixelBuffer, everWritten>>
    /\ lastOp' = [op |-> "setPixelColor", x |-> x, y |-> y, color |-> <<r, g, b, a>>,
                 changed |-> ChangedCells(pixelBuffer, pixelBuffer')]
    /\ surfaceOps' = surfaceOps + 1
    /\ UNCHANGED <<width, height>>

\* Surface::setPixel(x, y, r, g, b)
SetPixelRGB(x, y, r, g, b) ==
    /\ surfaceOps < MaxSurfaceOps
    /\ IF InBounds(x, y)
       THEN /\ pixelBuffer' = [pixelBuffer EXCEPT ![Index(x, y)] = PackRGB(r, g, b)]
            /\ everWritten' = TRUE
       ELSE UNCHANGED <<pixelBuffer, everWritten>>
    /\ lastOp' = [op |-> "setPixelRGB", x |-> x, y |-> y, color |-> <<r, g, b>>,
                 changed |-> ChangedCells(pixelBuffer, pixelBuffer')]
    /\ surfaceOps' = surfaceOps + 1
    /\ UNCHANGED <<width, height>>

----------------------------------------------------------------------------
(* Input (input.cpp)                                                       *)
(*                                                                         *)
(* keyState and mouseState are std::unordered_map<int, bool>: functions    *)
(* whose domain is the set of identifiers seen so far.  keyCallback is     *)
(* the registered std::function, "none" when it is empty.                  *)

GLFW_PRESS   == "press"
GLFW_RELEASE == "release"
GLFW_REPEAT  == "repeat"

EmptyMap == [k \in {} |-> FALSE]

\* m[k] = v on an unordered_map: the entry is created when absent
MapSet(m, k, v) == [j \in (DOMAIN m) \cup {k} |-> IF j = k THEN v ELSE m[j]]

\* find(id) != end() && it->second
PressedIn(m, id) == id \in DOMAIN m /\ m[id]

\* Input::isKeyPressed, Input::isMousePressed, Input::getMousePosition
IsKeyPressed(key) == PressedIn(keyState, key)
IsMousePressed(button) == PressedIn(mouseState, button)
GetMousePosition == <<mouseX, mouseY>>

\* inputs of the Input operations
Keys         == {32, 65}
Buttons      == {0}
KeyActions   == {GLFW_PRESS, GLFW_RELEASE, GLFW_REPEAT}
MouseActions == {GLFW_PRESS, GLFW_RELEASE}
CursorInputs == {<<5, 7>>, <<12, 3>>}
Callbacks    == {"cb1", "cb2"}

\* Input::setKeyCallback
SetKeyCallback(callback) ==
    /\ Len(inputLog) < MaxInputEvents
    /\ keyCallback' = callback
    /\ inputLog' = Append(inputLog, [kind |-> "set", a |-> callback, b |-> callback])
    /\ UNCHANGED <<keyState, mouseState, mouseX, mouseY, calls>>

\* the pressed-state update of keyCallbackGLFW
KeyStateAfterRepeatPresses(m, key, action) ==
    IF action = GLFW_RELEASE THEN MapSet(m, key, FALSE) ELSE MapSet(m, key, TRUE)
KeyStateAfter(m, key, action) ==
    IF action = GLFW_PRESS THEN MapSet(m, key, TRUE)
    ELSE IF action = GLFW_RELEASE THEN MapSet(m, key, FALSE)
    ELSE m

\* the call of the user-defined key callback if set, made with the key state m
KeyCallbackCallsBeforeUpdate(m, key, action) ==
    IF keyCallback # "none"
    THEN <<[cb |-> keyCallback, key |-> key, action |-> action,
            pressed |-> PressedIn(keyState, key)]>>
    ELSE <<>>
KeyCallbackCalls(m, key, action) ==
    IF keyCallback # "none"
    THEN <<[cb |-> keyCallback, key |-> key, action |-> action,
            pressed |-> PressedIn(m, key)]>>
    ELSE <<>>

\* Input::keyCallbackGLFW
KeyCallbackGLFW(key, action) ==
    /\ Len(inputLog) < MaxInputEvents
    /\ keyState' = KeyStateAfter(keyState, key, action)
    /\ calls' = calls \o KeyCallbackCalls(keyState', key, action)
    /\ inputLog' = Append(inputLog, [kind |-> "key", a |-> key, b |-> action])
    /\ UNCHANGED <<mouseState, mouseX, mouseY, keyCallback>>

\* Input::mouseButtonCallbackGLFW
MouseButtonCallbackGLFW(button, action) ==
    /\ Len(inputLog) < MaxInputEvents
    /\ mouseState' = IF action = GLFW_PRESS THEN MapSet(mouseState, button, TRUE)
                     ELSE IF action = GLFW_RELEASE THEN MapSet(mouseState, button, FALSE)
                     ELSE mouseState
    /\ inputLog' = Append(inputLog, [kind |-> "mouse", a |-> button, b |-> action])
    /\ UNCHANGED <<keyState, mouseX, mouseY, keyCallback, calls>>

\* Input::cursorPositionCallbackGLFW
CursorPositionCallbackKeepsFirst(xpos, ypos) ==
    /\ Len(inputLog) < MaxInputEvents
    /\ IF mouseX = 0 /\ mouseY = 0
       THEN mouseX' = xpos /\ mouseY' = ypos
       ELSE UNCHANGED <<mouseX, mouseY>>
    /\ inputLog' = Append(inputLog, [kind |-> "cursor", a |-> xpos, b |-> ypos])
    /\ UNCHANGED <<keyState, mouseState, keyCallback, calls>>
CursorPositionCallbackGLFW(xpos, ypos) ==
    /\ Len(inputLog) < MaxInputEvents
    /\ mouseX' = xpos
    /\ mouseY' = ypos
    /\ inputLog' = Append(inputLog, [kind |-> "cursor", a |-> xpos, b |-> ypos])
    /\ UNCHANGED <<keyState, mouseState, keyCallback, calls>>

----------------------------------------------------------------------------
(* Engine::run (engine.cpp:36-53)                                          *)
(*                                                                         *)
(* The clock is std::chrono::steady_clock, read in ticks; it never goes    *)
(* back.  deltaTime is the difference of two readings (the conversion to   *)
(* float seconds is a change of unit and is not modelled).  trace is the   *)
(* sequence of engine events of the current run() invocation.              *)

NoTime == -1

\* time passes, at any point of the program
Tick ==
    /\ now < MaxTime
    /\ now' = now + 1
    /\ UNCHANGED <<pc, closeFlag, previousTime, currentTime, deltaTime, trace, deltas,
                   iterStarts, setupReturnedAt, runs, frames, setupCalls, destroyCalls,
                   callAfterDestroy>>

\* run() is entered: auto previousTime = clock::now()
RunEnter ==
    /\ pc = "idle"
    /\ runs < MaxRuns
    /\ previousTime' = now
    /\ pc' = "setup"
    /\ trace' = <<>>
    /\ deltas' = <<>>
    /\ iterStarts' = <<>>
    /\ setupReturnedAt' = NoTime
    /\ frames' = 0
    /\ runs' = runs + 1
    /\ UNCHANGED <<closeFlag, now, currentTime, deltaTime, setupCalls, destroyCalls,
                   callAfterDestroy>>

\* onSetup() is called
OnSetupCall ==
    /\ pc = "setup"
    /\ pc' = "inSetup"
    /\ trace' = Append(trace, "onSetup")
    /\ setupCalls' = setupCalls + 1
    /\ callAfterDestroy' = (callAfterDestroy \/ destroyCalls > 0)
    /\ UNCHANGED <<closeFlag, now, previousTime, currentTime, deltaTime, deltas,
                   iterStarts, setupReturnedAt, runs, frames, destroyCalls>>

\* onSetup() returns
OnSetupReturn ==
    /\ pc = "inSetup"
    /\ pc' = "check"
    /\ setupReturnedAt' = now
    /\ UNCHANGED <<closeFlag, now, previousTime, currentTime, deltaTime, trace, deltas,
                   iterStarts, runs, frames, setupCalls, destroyCalls, callAfterDestroy>>

\* a callback throws: run() has no handler, the exception leaves run()
CallbackThrowsThenDestroys(at) ==
    /\ pc = at
    /\ pc' = IF at = "inDestroy" THEN "idle" ELSE "destroy"
    /\ trace' = Append(trace, "throw")
    /\ UNCHANGED <<closeFlag, now, previousTime, currentTime, deltaTime, deltas,
                   iterStarts, setupReturnedAt, runs, frames, setupCalls, destroyCalls,
                   callAfterDestroy>>
CallbackThrows(at) ==
    /\ pc = at
    /\ pc' = "idle"
    /\ trace' = Append(trace, "throw")
    /\ UNCHANGED <<closeFlag, now, previousTime, currentTime, deltaTime, deltas,
                   iterStarts, setupReturnedAt, runs, frames, setupCalls, destroyCalls,
                   callAfterDestroy>>

OnSetupThrow == CallbackThrows("inSetup")

\* while (!window->shouldClose()) and, when the loop is entered, the timing
\* statements: currentTime = clock::now(); deltaTime = currentTime - previousTime;
\* previousTime = currentTime
LoopCheckNoDestroy ==
    /\ pc = "check"
    /\ IF closeFlag
       THEN /\ pc' = "idle"
            /\ trace' = trace \o <<"shouldClose:true", "return">>
            /\ UNCHANGED <<previousTime, currentTime, deltaTime, iterStarts, frames>>
       ELSE /\ frames < MaxFrames
            /\ currentTime' = now
            /\ deltaTime' = currentTime' - previousTime
            /\ previousTime' = currentTime'
            /\ iterStarts' = Append(iterStarts, now)
            /\ frames' = frames + 1
            /\ pc' = "begin"
            /\ trace' = Append(trace, "shouldClose:false")
    /\ UNCHANGED <<closeFlag, now, deltas, setupReturnedAt, runs, setupCalls,
                   destroyCalls, callAfterDestroy>>
LoopCheckKeepsPrevious ==
    /\ pc = "check"
    /\ IF closeFlag
       THEN /\ pc' = "destroy"
            /\ trace' = Append(trace, "shouldClose:true")
            /\ UNCHANGED <<previousTime, currentTime, deltaTime, iterStarts, frames>>
       ELSE /\ frames < MaxFrames
            /\ currentTime' = now
            /\ deltaTime' = currentTime' - previousTime
            /\ previousTime' = previousTime
            /\ iterStarts' = Append(iterStarts, now)
            /\ frames' = frames + 1
            /\ pc' = "begin"
            /\ trace' = Append(trace, "shouldClose:false")
    /\ UNCHANGED <<closeFlag, now, deltas, setupReturnedAt, runs, setupCalls,
                   destroyCalls, callAfterDestroy>>
LoopCheckAfterFirstFrame ==
    /\ pc = "check"
    /\ IF closeFlag /\ frames > 0
       THEN /\ pc' = "destroy"
            /\ trace' = Append(trace, "shouldClose:true")
            /\ UNCHANGED <<previousTime, currentTime, deltaTime, iterStarts, frames>>
       ELSE /\ frames < MaxFrames
            /\ currentTime' = now
            /\ deltaTime' = currentTime' - previousTime
            /\ previousTime' = currentTime'
            /\ iterStarts' = Append(iterStarts, now)
            /\ frames' = frames + 1
            /\ pc' = "begin"
            /\ trace' = Append(trace, "shouldClose:false")
    /\ UNCHANGED <<closeFlag, now, deltas, setupReturnedAt, runs, setupCalls,
                   destroyCalls, callAfterDestroy>>
LoopCheck ==
    /\ pc = "check"
    /\ IF closeFlag
       THEN /\ pc' = "destroy"
            /\ trace' = Append(trace, "shouldClose:true")
            /\ UNCHANGED <<previousTime, currentTime, deltaTime, iterStarts, frames>>
       ELSE /\ frames < MaxFrames
            /\ currentTime' = now
            /\ deltaTime' = currentTime' - previousTime
            /\ previousTime' = currentTime'
            /\ iterStarts' = Append(iterStarts, now)
            /\ frames' = frames + 1
            /\ pc' = "begin"
            /\ trace' = Append(trace, "shouldClose:false")
    /\ UNCHANGED <<closeFlag, now, deltas, setupReturnedAt, runs, setupCalls,
                   destroyCalls, callAfterDestroy>>

\* graphics->beginFrame(): surface->clear()
BeginFrameKeepsBuffer ==
    /\ pc = "begin"
    /\ pc' = "update"
    /\ trace' = Append(trace, "beginFrame")
    /\ lastOp' = [op |-> "clear", x |-> 0, y |-> 0, color |-> NoColor, changed |-> {}]
    /\ UNCHANGED <<width, height, pixelBuffer, everWritten, surfaceOps>>
    /\ UNCHANGED <<closeFlag, now, previousTime, currentTime, deltaTime, deltas,
                   iterStarts, setupReturnedAt, runs, frames, setupCalls, destroyCalls,
                   callAfterDestroy>>
BeginFrame ==
    /\ pc = "begin"
    /\ pc' = "update"
    /\ trace' = Append(trace, "beginFrame")
    /\ pixelBuffer' = Cleared(pixelBuffer)
    /\ lastOp' = [op |-> "clear", x |-> 0, y |-> 0, color |-> NoColor,
                 changed |-> ChangedCells(pixelBuffer, pixelBuffer')]
    /\ UNCHANGED <<width, height, everWritten, surfaceOps>>
    /\ UNCHANGED <<closeFlag, now, previousTime, currentTime, deltaTime, deltas,
                   iterStarts, setupReturnedAt, runs, frames, setupCalls, destroyCalls,
                   callAfterDestroy>>

\* onUpdate(deltaTime) is called
OnUpdateCall ==
    /\ pc = "update"
    /\ pc' = "inUpdate"
    /\ trace' = Append(trace, "onUpdate")
    /\ deltas' = Append(deltas, deltaTime)
    /\ callAfterDestroy' = (callAfterDestroy \/ destroyCalls > 0)
    /\ UNCHANGED <<closeFlag, now, previousTime, currentTime, deltaTime, iterStarts,
                   setupReturnedAt, runs, frames, setupCalls, destroyCalls>>

\* onUpdate returns
OnUpdateReturnPolls ==
    /\ pc = "inUpdate"
    /\ pc' = "end"
    /\ closeFlag' \in {closeFlag, TRUE}
    /\ UNCHANGED <<now, previousTime, currentTime, deltaTime, trace, deltas,
                   iterStarts, setupReturnedAt, runs, frames, setupCalls, destroyCalls,
                   callAfterDestroy>>
OnUpdateReturn ==
    /\ pc = "inUpdate"
    /\ pc' = "end"
    /\ UNCHANGED <<closeFlag, now, previousTime, currentTime, deltaTime, trace, deltas,
                   iterStarts, setupReturnedAt, runs, frames, setupCalls, destroyCalls,
                   callAfterDestroy>>

OnUpdateThrow == CallbackThrows("inUpdate")

\* graphics->endFrame(): glTexSubImage2D of the whole surface buffer, then the draw
EndFrameUploadsChanges ==
    /\ pc = "end"
    /\ pc' = "swap"
    /\ trace' = Append(trace, "endFrame")
    /\ texture' = [i \in DOMAIN texture |->
                   IF i \in lastOp.changed THEN pixelBuffer[i] ELSE texture[i]]
    /\ UNCHANGED <<closeFlag, now, previousTime, currentTime, deltaTime, deltas,
                   iterStarts, setupReturnedAt, runs, frames, setupCalls, destroyCalls,
                   callAfterDestroy>>
EndFrame ==
    /\ pc = "end"
    /\ pc' = "swap"
    /\ trace' = Append(trace, "endFrame")
    /\ texture' = pixelBuffer
    /\ UNCHANGED <<closeFlag, now, previousTime, currentTime, deltaTime, deltas,
                   iterStarts, setupReturnedAt, runs, frames, setupCalls, destroyCalls,
                   callAfterDestroy>>

\* window->swapBuffers()
SwapBuffersSkipsPoll ==
    /\ pc = "swap"
    /\ pc' = "check"
    /\ trace' = Append(trace, "swapBuffers")
    /\ closeFlag' \in {closeFlag, TRUE}
    /\ UNCHANGED <<now, previousTime, currentTime, deltaTime, deltas,
                   iterStarts, setupReturnedAt, runs, frames, setupCalls, destroyCalls,
                   callAfterDestroy>>
SwapBuffers ==
    /\ pc = "swap"
    /\ pc' = "poll"
    /\ trace' = Append(trace, "swapBuffers")
    /\ UNCHANGED <<closeFlag, now, previousTime, currentTime, deltaTime, deltas,
                   iterStarts, setupReturnedAt, runs, frames, setupCalls, destroyCalls,
                   callAfterDestroy>>

\* window->pollEvents(): glfwPollEvents() handles the pending window events; a
\* close event sets the window's close flag, which nothing in the engine resets
PollEvents ==
    /\ pc = "poll"
    /\ pc' = "check"
    /\ trace' = Append(trace, "pollEvents")
    /\ closeFlag' \in {closeFlag, TRUE}
    /\ UNCHANGED <<now, previousTime, currentTime, deltaTime, deltas,
                   iterStarts, setupReturnedAt, runs, frames, setupCalls, destroyCalls,
                   callAfterDestroy>>

\* onDestroy() is called
OnDestroyCall ==
    /\ pc = "destroy"
    /\ pc' = "inDestroy"
    /\ trace' = Append(trace, "onDestroy")
    /\ destroyCalls' = destroyCalls + 1
    /\ callAfterDestroy' = (callAfterDestroy \/ destroyCalls > 0)
    /\ UNCHANGED <<closeFlag, now, previousTime, currentTime, deltaTime, deltas,
                   iterStarts, setupReturnedAt, runs, frames, setupCalls>>

\* onDestroy() returns and so does run()
OnDestroyReturn ==
    /\ pc = "inDestroy"
    /\ pc' = "idle"
    /\ trace' = Append(trace, "return")
    /\ UNCHANGED <<closeFlag, now, previousTime, currentTime, deltaTime, deltas,
                   iterStarts, setupReturnedAt, runs, frames, setupCalls, destroyCalls,
                   callAfterDestroy>>

OnDestroyThrow == CallbackThrows("inDestroy")

----------------------------------------------------------------------------
(* Drawing calls of the application (engine.cpp:63-91)                     *)
(*                                                                         *)
(* Engine::drawPixel goes through Graphics::setPixel(int x, int y, int r,  *)
(* int g, int b) to Surface::setPixel(x, y, uint8_t, uint8_t, uint8_t):    *)
(* each channel is converted from int to uint8_t on the way.               *)

\* the buffer after Surface::setPixel(x, y, r, g, b) on the buffer buf
PlotRGBWraps(buf, x, y, r, g, b) ==
    IF InBoundsLinear(x, y) THEN [buf EXCEPT ![Index(x, y)] = PackRGB(r, g, b)] ELSE buf
PlotRGB(buf, x, y, r, g, b) ==
    IF InBounds(x, y) THEN [buf EXCEPT ![Index(x, y)] = PackRGB(r, g, b)] ELSE buf

\* what onUpdate has written to each cell in the current frame
FrameWritesAfter(x, y, color) ==
    IF pc = "inUpdate" /\ InBounds(x, y)
    THEN [frameWrites EXCEPT ![Index(x, y)] = color]
    ELSE frameWrites

\* Engine::drawPixel(x, y, r, g, b)
DrawPixelRGB(x, y, r, g, b) ==
    /\ SetPixelRGB(x, y, ToU8(r), ToU8(g), ToU8(b))
    /\ frameWrites' = FrameWritesAfter(x, y, <<r, g, b, 255>>)
    /\ lastDraw' = [op |-> "drawPixelRGB", x |-> x, y |-> y, color |-> <<r, g, b>>]

\* Engine::drawPixel(x, y, color): the call is
\* graphics->setPixel(x, y, color.r(), color.g(), color.b())
DrawPixelColor(x, y, color) ==
    /\ SetPixelRGB(x, y, ToU8(ColorR(color)), ToU8(ColorG(color)), ToU8(ColorB(color)))
    /\ frameWrites' = FrameWritesAfter(x, y, <<ColorR(color), ColorG(color),
                                               ColorB(color), ColorA(color)>>)
    /\ lastDraw' = [op |-> "drawPixelColor", x |-> x, y |-> y,
                    color |-> <<ColorR(color), ColorG(color), ColorB(color),
                                ColorA(color)>>]

Abs(v) == IF v < 0 THEN 0 - v ELSE v

\* Engine::drawLine: the positions passed to drawPixel by the loop that is at
\* (x, y) with error term err, in order
RECURSIVE LineLoopBreaksFirst(_, _, _, _, _, _, _, _, _)
LineLoopBreaksFirst(x, y, x2, y2, dx, dy, sx, sy, err) ==
    IF x = x2 /\ y = y2 THEN <<>>
    ELSE LET e2    == 2 * err
             stepX == e2 > 0 - dy
             err1  == IF stepX THEN err - dy ELSE err
             stepY == e2 < dx
         IN  <<<<x, y>>>> \o
             LineLoopBreaksFirst(IF stepX THEN x + sx ELSE x, IF stepY THEN y + sy ELSE y,
                                 x2, y2, dx, dy, sx, sy,
                                 IF stepY THEN err1 + dx ELSE err1)
RECURSIVE LineLoop(_, _, _, _, _, _, _, _, _)
LineLoop(x, y, x2, y2, dx, dy, sx, sy, err) ==
    <<<<x, y>>>> \o
    IF x = x2 /\ y = y2 THEN <<>>
    ELSE LET e2    == 2 * err
             stepX == e2 > 0 - dy
             err1  == IF stepX THEN err - dy ELSE err
             stepY == e2 < dx
         IN  LineLoop(IF stepX THEN x + sx ELSE x, IF stepY THEN y + sy ELSE y,
                      x2, y2, dx, dy, sx, sy,
                      IF stepY THEN err1 + dx ELSE err1)

\* Engine::drawLine: the locals before the loop, then the loop
LinePositions(x1, y1, x2, y2) ==
    LET dx == Abs(x2 - x1)
        dy == Abs(y2 - y1)
        sx == IF x1 < x2 THEN 1 ELSE -1
        sy == IF y1 < y2 THEN 1 ELSE -1
    IN  LineLoop(x1, y1, x2, y2, dx, dy, sx, sy, dx - dy)

\* the buffer after drawPixel at positions i..Len(pts) of pts
RECURSIVE PlotAll(_, _, _, _, _, _)
PlotAll(buf, pts, i, r, g, b) ==
    IF i > Len(pts) THEN buf
    ELSE PlotAll(PlotRGB(buf, pts[i][1], pts[i][2], ToU8(r), ToU8(g), ToU8(b)),
                 pts, i + 1, r, g, b)

\* Engine::drawLine(x1, y1, x2, y2, r, g, b)
DrawLine(x1, y1, x2, y2, r, g, b) ==
    LET pts == LinePositions(x1, y1, x2, y2) IN
    /\ pixelBuffer' = PlotAll(pixelBuffer, pts, 1, r, g, b)
    /\ everWritten' = (everWritten \/ \E i \in 1..Len(pts) : InBounds(pts[i][1], pts[i][2]))
    /\ lastOp' = [op |-> "drawLine", x |-> x1, y |-> y1, x2 |-> x2, y2 |-> y2,
                 color |-> <<r, g, b>>, positions |-> pts,
                 changed |-> ChangedCells(pixelBuffer, pixelBuffer')]
    /\ UNCHANGED <<width, height, surfaceOps>>

\* Engine::drawLine(x1, y1, x2, y2, color)
DrawLineColor(x1, y1, x2, y2, color) ==
    DrawLine(x1, y1, x2, y2, ColorR(color), ColorG(color), ColorB(color))

----------------------------------------------------------------------------
(* Texture upload (graphics.cpp:119-124, 150-161)                          *)
(*                                                                         *)
(* glTexSubImage2D receives the std::vector<uint32_t> of the Surface as    *)
(* untyped memory and reads it as GL_RGBA, GL_UNSIGNED_BYTE: four bytes    *)
(* per texel in memory order, the first one red.  The fragment shader      *)
(* outputs the sampled texel unchanged.                                    *)

\* the four bytes of a uint32_t in memory on a little-endian host, lowest
\* address first
MemoryBytes(w) == <<w[4], w[3], w[2], w[1]>>

\* the texel GL_RGBA / GL_UNSIGNED_BYTE makes of four bytes of memory
TexelRGBA(bytes) == [r |-> bytes[1], g |-> bytes[2], b |-> bytes[3], a |-> bytes[4]]

\* the colour on screen of cell i of the uploaded buffer
Presented(i) == TexelRGBA(MemoryBytes(texture[i]))

----------------------------------------------------------------------------
(* Engine construction and destruction (engine.cpp:27-34)                  *)
(*                                                                         *)
(* life is the position inside Engine::Engine and Engine::~Engine.  An     *)
(* OpenGL object is "none" before it is created, "live" once created,      *)
(* "released" after its glDelete call and "released twice" after a second  *)
(* one.  An exception that leaves a constructor skips the destructor of    *)
(* the object under construction and destroys the members and objects      *)
(* that were complete.                                                     *)

Resources == {"vertexShader", "fragmentShader", "program", "VAO", "VBO", "EBO", "texture"}

\* glCreateShader, glCreateProgram, glGen*
Acquire(g, r) == [g EXCEPT ![r] = "live"]

\* glDeleteShader, glDeleteProgram, glDelete*: the name 0 is ignored
Release(g, r) ==
    [g EXCEPT ![r] = IF @ = "live" THEN "released"
                     ELSE IF @ = "none" THEN "none"
                     ELSE "released twice"]

\* Window::~Window
WindowDestructor ==
    /\ windowHandle' = IF windowHandle = "created" THEN "destroyed" ELSE windowHandle
    /\ glfw' = [glfw EXCEPT !.terminateCalls = @ + 1]

\* an exception leaves Engine::Engine after the Window was made: the member
\* std::unique_ptr<Window> is destroyed, graphics and input are still null
UnwindKeepsWindow(error) ==
    /\ life' = "failed"
    /\ ctorError' = error
    /\ graphicsObj' = "failed"
    /\ UNCHANGED <<windowHandle, glfw, inputObj>>
UnwindEngineConstructor(error) ==
    /\ life' = "failed"
    /\ ctorError' = error
    /\ graphicsObj' = "failed"
    /\ WindowDestructor
    /\ UNCHANGED inputObj

\* Window::Window: glfwInit
WindowGlfwInit(ok) ==
    /\ life = "none"
    /\ IF ok
       THEN /\ glfw' = [glfw EXCEPT !.initialized = TRUE]
            /\ life' = "createWindow"
            /\ UNCHANGED ctorError
       ELSE /\ life' = "failed"
            /\ ctorError' = "glfwInit"
            /\ UNCHANGED glfw
    /\ UNCHANGED <<windowHandle, gpu, graphicsObj, inputObj>>

\* Window::Window: glfwCreateWindow, glfwMakeContextCurrent, glfwSwapInterval
WindowCreate(ok) ==
    /\ life = "createWindow"
    /\ IF ok
       THEN /\ windowHandle' = "created"
            /\ life' = "glad"
            /\ UNCHANGED <<glfw, ctorError>>
       ELSE /\ glfw' = [glfw EXCEPT !.terminateCalls = @ + 1]
            /\ life' = "failed"
            /\ ctorError' = "createWindow"
            /\ UNCHANGED windowHandle
    /\ UNCHANGED <<gpu, graphicsObj, inputObj>>

\* Graphics::Graphics up to gladLoadGLLoader in initOpenGL
GraphicsLoadGlad(ok) ==
    /\ life = "glad"
    /\ IF ok
       THEN /\ life' = "vertexShader"
            /\ graphicsObj' = "constructing"
            /\ UNCHANGED <<glfw, windowHandle, inputObj, ctorError>>
       ELSE UnwindEngineConstructor("glad")
    /\ UNCHANGED gpu

\* Graphics::compileShader, called for the vertex and then the fragment shader
CompileShader(shader, ok) ==
    /\ life = shader
    /\ gpu' = Acquire(gpu, shader)
    /\ IF ok
       THEN /\ life' = IF shader = "vertexShader" THEN "fragmentShader" ELSE "link"
            /\ UNCHANGED <<glfw, windowHandle, graphicsObj, inputObj, ctorError>>
       ELSE UnwindEngineConstructor(shader)

\* Graphics::initOpenGL: glCreateProgram to glDeleteShader
LinkProgram(ok) ==
    /\ life = "link"
    /\ IF ok
       THEN /\ gpu' = Release(Release(Acquire(gpu, "program"), "vertexShader"),
                              "fragmentShader")
            /\ life' = "buffers"
            /\ UNCHANGED <<glfw, windowHandle, graphicsObj, inputObj, ctorError>>
       ELSE /\ gpu' = Acquire(gpu, "program")
            /\ UnwindEngineConstructor("link")

\* Graphics::initOpenGL: the quad geometry and the texture; the constructor of
\* Graphics returns
CreateBuffersAndTexture ==
    /\ life = "buffers"
    /\ gpu' = Acquire(Acquire(Acquire(Acquire(gpu, "VAO"), "VBO"), "EBO"), "texture")
    /\ graphicsObj' = "alive"
    /\ life' = "input"
    /\ UNCHANGED <<glfw, windowHandle, inputObj, ctorError>>

\* Input::Input; the constructor of Engine returns
InputConstruct ==
    /\ life = "input"
    /\ inputObj' = "alive"
    /\ life' = "alive"
    /\ UNCHANGED <<glfw, windowHandle, gpu, graphicsObj, ctorError>>

\* Engine::~Engine destroys the members in reverse order of declaration
\* (engine.h:195-197): input first; run() is not executing
DestroyWindowFirst ==
    /\ life = "alive"
    /\ pc = "idle"
    /\ WindowDestructor
    /\ life' = "destroyGraphics"
    /\ UNCHANGED <<gpu, graphicsObj, inputObj, ctorError>>
DestroyInput ==
    /\ life = "alive"
    /\ pc = "idle"
    /\ inputObj' = "destroyed"
    /\ life' = "destroyGraphics"
    /\ UNCHANGED <<glfw, windowHandle, gpu, graphicsObj, ctorError>>

\* Graphics::~Graphics
DestroyGraphics ==
    /\ life = "destroyGraphics"
    /\ gpu' = Release(Release(Release(Release(Release(gpu, "texture"), "VAO"), "VBO"),
                              "EBO"), "program")
    /\ graphicsObj' = "destroyed"
    /\ life' = "destroyWindow"
    /\ UNCHANGED <<glfw, windowHandle, inputObj, ctorError>>

\* Window::~Window, last member of Engine
DestroyWindow ==
    /\ life = "destroyWindow"
    /\ WindowDestructor
    /\ life' = "destroyed"
    /\ UNCHANGED <<gpu, graphicsObj, inputObj, ctorError>>

----------------------------------------------------------------------------
(* Specifications                                                          *)

\* an Input as constructed (input.h:66-71)
InitInput ==
    /\ keyState = EmptyMap
    /\ mouseState = EmptyMap
    /\ mouseX = 0
    /\ mouseY = 0
    /\ keyCallback = "none"
    /\ inputLog = <<>>
    /\ calls = <<>>

InitLoop ==
    /\ pc = "idle"
    /\ closeFlag = FALSE
    /\ now = 0
    /\ previousTime = 0
    /\ currentTime = 0
    /\ deltaTime = 0
    /\ trace = <<>>
    /\ deltas = <<>>
    /\ iterStarts = <<>>
    /\ setupReturnedAt = NoTime
    /\ runs = 0
    /\ frames = 0
    /\ setupCalls = 0
    /\ destroyCalls = 0
    /\ callAfterDestroy = FALSE

\* a Surface of w x h cells as Graphics::Graphics leaves it, and the texture
\* as glTexImage2D in initOpenGL fills it
InitSurface(w, h) ==
    /\ width = w
    /\ height = h
    /\ pixelBuffer = NewBuffer(w, h)
    /\ lastOp = [op |-> "construct", x |-> 0, y |-> 0, color |-> NoColor, changed |-> {}]
    /\ everWritten = FALSE
    /\ surfaceOps = 0
    /\ texture = NewBuffer(w, h)

\* before Engine::Engine
InitLife ==
    /\ life = "none"
    /\ glfw = [initialized |-> FALSE, terminateCalls |-> 0]
    /\ windowHandle = "none"
    /\ gpu = [r \in Resources |-> "none"]
    /\ graphicsObj = "none"
    /\ inputObj = "none"
    /\ ctorError = "none"

\* after Engine::Engine returned
InitConstructed ==
    /\ life = "alive"
    /\ glfw = [initialized |-> TRUE, terminateCalls |-> 0]
    /\ windowHandle = "created"
    /\ gpu = [r \in Resources |->
                 IF r \in {"vertexShader", "fragmentShader"} THEN "released" ELSE "live"]
    /\ graphicsObj = "alive"
    /\ inputObj = "alive"
    /\ ctorError = "none"

\* no drawing call yet
InitFrame ==
    /\ frameWrites = [i \in 0..(width * height - 1) |-> NoColor]
    /\ lastDraw = [op |-> "none"]

\* the Surface alone, of every size up to MaxWidth x MaxHeight
InitSurfaceSpec ==
    /\ \E w \in 1..MaxWidth, h \in 1..MaxHeight : InitSurface(w, h)
    /\ InitInput
    /\ InitLoop
    /\ InitConstructed
    /\ InitFrame

NextSurface ==
    /\ \/ SurfaceClear
       \/ \E x \in XCoords, y \in YCoords, c \in ColorInputs :
              SetPixelColor(x, y, c[1], c[2], c[3], c[4])
       \/ \E x \in XCoords, y \in YCoords, t \in RGBInputs : SetPixelRGB(x, y, t[1], t[2], t[3])
    /\ UNCHANGED <<inputVars, loopVars, gfxVars, lifeVars, frameVars>>

SpecSurface == InitSurfaceSpec /\ [][NextSurface]_vars

\* the Input alone: events and registrations in any order
InitInputSpec ==
    /\ InitSurface(1, 1)
    /\ InitInput
    /\ InitLoop
    /\ InitConstructed
    /\ InitFrame

NextInput ==
    /\ \/ \E cb \in Callbacks \cup {"none"} : SetKeyCallback(cb)
       \/ \E k \in Keys, a \in KeyActions : KeyCallbackGLFW(k, a)
       \/ \E b \in Buttons, a \in MouseActions : MouseButtonCallbackGLFW(b, a)
       \/ \E p \in CursorInputs : CursorPositionCallbackGLFW(p[1], p[2])
    /\ UNCHANGED <<surfVars, loopVars, gfxVars, lifeVars, frameVars>>

SpecInput == InitInputSpec /\ [][NextInput]_vars

\* the main loop of an Engine, with its clock and its window
Init ==
    /\ InitSurface(1, 1)
    /\ InitInput
    /\ InitLoop
    /\ InitConstructed
    /\ InitFrame

Next ==
    \/ Tick /\ UNCHANGED <<surfVars, inputVars, gfxVars, lifeVars, frameVars>>
    \/ RunEnter /\ UNCHANGED <<surfVars, inputVars, gfxVars, lifeVars, frameVars>>
    \/ OnSetupCall /\ UNCHANGED <<surfVars, inputVars, gfxVars, lifeVars, frameVars>>
    \/ OnSetupReturn /\ UNCHANGED <<surfVars, inputVars, gfxVars, lifeVars, frameVars>>
    \/ OnSetupThrow /\ UNCHANGED <<surfVars, inputVars, gfxVars, lifeVars, frameVars>>
    \/ LoopCheck /\ UNCHANGED <<surfVars, inputVars, gfxVars, lifeVars, frameVars>>
    \/ BeginFrame /\ UNCHANGED <<inputVars, gfxVars, lifeVars, frameVars>>
    \/ OnUpdateCall /\ UNCHANGED <<surfVars, inputVars, gfxVars, lifeVars, frameVars>>
    \/ OnUpdateReturn /\ UNCHANGED <<surfVars, inputVars, gfxVars, lifeVars, frameVars>>
    \/ OnUpdateThrow /\ UNCHANGED <<surfVars, inputVars, gfxVars, lifeVars, frameVars>>
    \/ EndFrame /\ UNCHANGED <<surfVars, inputVars, lifeVars, frameVars>>
    \/ SwapBuffers /\ UNCHANGED <<surfVars, inputVars, gfxVars, lifeVars, frameVars>>
    \/ PollEvents /\ UNCHANGED <<surfVars, inputVars, gfxVars, lifeVars, frameVars>>
    \/ OnDestroyCall /\ UNCHANGED <<surfVars, inputVars, gfxVars, lifeVars, frameVars>>
    \/ OnDestroyReturn /\ UNCHANGED <<surfVars, inputVars, gfxVars, lifeVars, frameVars>>
    \/ OnDestroyThrow /\ UNCHANGED <<surfVars, inputVars, gfxVars, lifeVars, frameVars>>

Spec == Init /\ [][Next]_vars

\* an Engine from before its construction to after its destruction; run() can
\* be called on a constructed Engine only
NextLifecycle ==
    \/ (\E ok \in BOOLEAN : WindowGlfwInit(ok))
          /\ UNCHANGED <<surfVars, inputVars, loopVars, gfxVars, frameVars>>
    \/ (\E ok \in BOOLEAN : WindowCreate(ok))
          /\ UNCHANGED <<surfVars, inputVars, loopVars, gfxVars, frameVars>>
    \/ (\E ok \in BOOLEAN : GraphicsLoadGlad(ok))
          /\ UNCHANGED <<surfVars, inputVars, loopVars, gfxVars, frameVars>>
    \/ (\E sh \in {"vertexShader", "fragmentShader"}, ok \in BOOLEAN : CompileShader(sh, ok))
          /\ UNCHANGED <<surfVars, inputVars, loopVars, gfxVars, frameVars>>
    \/ (\E ok \in BOOLEAN : LinkProgram(ok))
          /\ UNCHANGED <<surfVars, inputVars, loopVars, gfxVars, frameVars>>
    \/ CreateBuffersAndTexture
          /\ UNCHANGED <<surfVars, inputVars, loopVars, gfxVars, frameVars>>
    \/ InputConstruct /\ UNCHANGED <<surfVars, inputVars, loopVars, gfxVars, frameVars>>
    \/ DestroyInput /\ UNCHANGED <<surfVars, inputVars, loopVars, gfxVars, frameVars>>
    \/ DestroyGraphics /\ UNCHANGED <<surfVars, inputVars, loopVars, gfxVars, frameVars>>
    \/ DestroyWindow /\ UNCHANGED <<surfVars, inputVars, loopVars, gfxVars, frameVars>>
    \/ life = "alive" /\ RunEnter /\ UNCHANGED <<surfVars, inputVars, gfxVars, lifeVars, frameVars>>
    \/ OnSetupCall /\ UNCHANGED <<surfVars, inputVars, gfxVars, lifeVars, frameVars>>
    \/ OnSetupReturn /\ UNCHANGED <<surfVars, inputVars, gfxVars, lifeVars, frameVars>>
    \/ OnSetupThrow /\ UNCHANGED <<surfVars, inputVars, gfxVars, lifeVars, frameVars>>
    \/ LoopCheck /\ UNCHANGED <<surfVars, inputVars, gfxVars, lifeVars, frameVars>>
    \/ BeginFrame /\ UNCHANGED <<inputVars, gfxVars, lifeVars, frameVars>>
    \/ OnUpdateCall /\ UNCHANGED <<surfVars, inputVars, gfxVars, lifeVars, frameVars>>
    \/ OnUpdateReturn /\ UNCHANGED <<surfVars, inputVars, gfxVars, lifeVars, frameVars>>
    \/ OnUpdateThrow /\ UNCHANGED <<surfVars, inputVars, gfxVars, lifeVars, frameVars>>
    \/ EndFrame /\ UNCHANGED <<surfVars, inputVars, lifeVars, frameVars>>
    \/ SwapBuffers /\ UNCHANGED <<surfVars, inputVars, gfxVars, lifeVars, frameVars>>
    \/ PollEvents /\ UNCHANGED <<surfVars, inputVars, gfxVars, lifeVars, frameVars>>
    \/ OnDestroyCall /\ UNCHANGED <<surfVars, inputVars, gfxVars, lifeVars, frameVars>>
    \/ OnDestroyReturn /\ UNCHANGED <<surfVars, inputVars, gfxVars, lifeVars, frameVars>>
    \/ OnDestroyThrow /\ UNCHANGED <<surfVars, inputVars, gfxVars, lifeVars, frameVars>>

InitLifecycle ==
    /\ InitSurface(1, 1)
    /\ InitInput
    /\ InitLoop
    /\ InitLife
    /\ InitFrame

SpecLifecycle == InitLifecycle /\ [][NextLifecycle]_vars

\* drawLine applied to a new LineWidth x LineHeight surface, with endpoints on
\* the surface and one cell outside of it on every side
InitLine ==
    /\ InitSurface(LineWidth, LineHeight)
    /\ InitInput
    /\ InitLoop
    /\ InitConstructed
    /\ InitFrame

NextLine ==
    /\ lastOp.op = "construct"
    /\ \/ \E x1 \in XCoords, y1 \in YCoords, x2 \in XCoords, y2 \in YCoords, t \in RGBInputs :
              DrawLine(x1, y1, x2, y2, t[1], t[2], t[3])
       \/ \E x1 \in XCoords, y1 \in YCoords, x2 \in XCoords, y2 \in YCoords, c \in ColorInputs :
              DrawLineColor(x1, y1, x2, y2, Color(c[1], c[2], c[3], c[4]))
    /\ UNCHANGED <<inputVars, loopVars, gfxVars, lifeVars, frameVars>>

SpecLine == InitLine /\ [][NextLine]_vars

\* the main loop of an Engine whose callbacks return and draw pixels
FramePositions == {<<1, 1>>, <<0, 0>>, <<width, 1>>}

FrameRGBInputs == {<<255, 0, 0>>}

InCallback == pc \in {"inSetup", "inUpdate", "inDestroy"}

InitFrames ==
    /\ InitSurface(FrameWidth, FrameHeight)
    /\ InitInput
    /\ InitLoop
    /\ InitConstructed
    /\ InitFrame

NextFrames ==
    \/ RunEnter /\ UNCHANGED <<surfVars, inputVars, gfxVars, lifeVars, frameVars>>
    \/ OnSetupCall /\ UNCHANGED <<surfVars, inputVars, gfxVars, lifeVars, frameVars>>
    \/ OnSetupReturn /\ UNCHANGED <<surfVars, inputVars, gfxVars, lifeVars, frameVars>>
    \/ LoopCheck /\ UNCHANGED <<surfVars, inputVars, gfxVars, lifeVars, frameVars>>
    \/ BeginFrame /\ frameWrites' = [i \in DOMAIN frameWrites |-> NoColor]
          /\ UNCHANGED <<inputVars, gfxVars, lifeVars, lastDraw>>
    \/ OnUpdateCall /\ UNCHANGED <<surfVars, inputVars, gfxVars, lifeVars, frameVars>>
    \/ OnUpdateReturn /\ UNCHANGED <<surfVars, inputVars, gfxVars, lifeVars, frameVars>>
    \/ EndFrame /\ UNCHANGED <<surfVars, inputVars, lifeVars, frameVars>>
    \/ SwapBuffers /\ UNCHANGED <<surfVars, inputVars, gfxVars, lifeVars, frameVars>>
    \/ PollEvents /\ UNCHANGED <<surfVars, inputVars, gfxVars, lifeVars, frameVars>>
    \/ OnDestroyCall /\ UNCHANGED <<surfVars, inputVars, gfxVars, lifeVars, frameVars>>
    \/ OnDestroyReturn /\ UNCHANGED <<surfVars, inputVars, gfxVars, lifeVars, frameVars>>
    \/ InCallback
          /\ (\E p \in FramePositions, t \in FrameRGBInputs :
                 DrawPixelRGB(p[1], p[2], t[1], t[2], t[3]))
          /\ UNCHANGED <<inputVars, loopVars, gfxVars, lifeVars>>
    \/ InCallback
          /\ (\E p \in FramePositions, c \in ColorInputs :
                 DrawPixelColor(p[1], p[2], Color(c[1], c[2], c[3], c[4])))
          /\ UNCHANGED <<inputVars, loopVars, gfxVars, lifeVars>>

SpecFrames == InitFrames /\ [][NextFrames]_vars

\* the main loop of an Engine whose window receives input events: GLFW invokes
\* the callbacks registered by Input::Input from inside glfwPollEvents, that is
\* while window->pollEvents() is executing
PollKeyInputs == {<<65, GLFW_PRESS>>, <<65, GLFW_RELEASE>>}

PollButtonInputs == {<<0, GLFW_PRESS>>}

PollCursorInputs == {<<5, 7>>}

InitPoll ==
    /\ InitSurface(1, 1)
    /\ InitInput
    /\ InitLoop
    /\ InitConstructed
    /\ InitFrame

NextPoll ==
    \/ RunEnter /\ UNCHANGED <<surfVars, inputVars, gfxVars, lifeVars, frameVars>>
    \/ OnSetupCall /\ UNCHANGED <<surfVars, inputVars, gfxVars, lifeVars, frameVars>>
    \/ OnSetupReturn /\ UNCHANGED <<surfVars, inputVars, gfxVars, lifeVars, frameVars>>
    \/ LoopCheck /\ UNCHANGED <<surfVars, inputVars, gfxVars, lifeVars, frameVars>>
    \/ BeginFrame /\ UNCHANGED <<inputVars, gfxVars, lifeVars, frameVars>>
    \/ OnUpdateCall /\ UNCHANGED <<surfVars, inputVars, gfxVars, lifeVars, frameVars>>
    \/ OnUpdateReturn /\ UNCHANGED <<surfVars, inputVars, gfxVars, lifeVars, frameVars>>
    \/ EndFrame /\ UNCHANGED <<surfVars, inputVars, lifeVars, frameVars>>
    \/ SwapBuffers /\ UNCHANGED <<surfVars, inputVars, gfxVars, lifeVars, frameVars>>
    \/ pc = "poll" /\ (\E e \in PollKeyInputs : KeyCallbackGLFW(e[1], e[2]))
          /\ UNCHANGED <<surfVars, loopVars, gfxVars, lifeVars, frameVars>>
    \/ pc = "poll" /\ (\E e \in PollButtonInputs : MouseButtonCallbackGLFW(e[1], e[2]))
          /\ UNCHANGED <<surfVars, loopVars, gfxVars, lifeVars, frameVars>>
    \/ pc = "poll" /\ (\E e \in PollCursorInputs : CursorPositionCallbackGLFW(e[1], e[2]))
          /\ UNCHANGED <<surfVars, loopVars, gfxVars, lifeVars, frameVars>>
    \/ PollEvents /\ UNCHANGED <<surfVars, inputVars, gfxVars, lifeVars, frameVars>>
    \/ OnDestroyCall /\ UNCHANGED <<surfVars, inputVars, gfxVars, lifeVars, frameVars>>
    \/ OnDestroyReturn /\ UNCHANGED <<surfVars, inputVars, gfxVars, lifeVars, frameVars>>

SpecPoll == InitPoll /\ [][NextPoll]_vars

\* the main loop of an Engine whose callbacks return, executed step after step:
\* a started run() takes its next step as long as it has one
NextLive ==
    \/ Tick /\ UNCHANGED <<surfVars, inputVars, gfxVars, lifeVars, frameVars>>
    \/ RunEnter /\ UNCHANGED <<surfVars, inputVars, gfxVars, lifeVars, frameVars>>
    \/ OnSetupCall /\ UNCHANGED <<surfVars, inputVars, gfxVars, lifeVars, frameVars>>
    \/ OnSetupReturn /\ UNCHANGED <<surfVars, inputVars, gfxVars, lifeVars, frameVars>>
    \/ LoopCheck /\ UNCHANGED <<surfVars, inputVars, gfxVars, lifeVars, frameVars>>
    \/ BeginFrame /\ UNCHANGED <<inputVars, gfxVars, lifeVars, frameVars>>
    \/ OnUpdateCall /\ UNCHANGED <<surfVars, inputVars, gfxVars, lifeVars, frameVars>>
    \/ OnUpdateReturn /\ UNCHANGED <<surfVars, inputVars, gfxVars, lifeVars, frameVars>>
    \/ EndFrame /\ UNCHANGED <<surfVars, inputVars, lifeVars, frameVars>>
    \/ SwapBuffers /\ UNCHANGED <<surfVars, inputVars, gfxVars, lifeVars, frameVars>>
    \/ PollEvents /\ UNCHANGED <<surfVars, inputVars, gfxVars, lifeVars, frameVars>>
    \/ OnDestroyCall /\ UNCHANGED <<surfVars, inputVars, gfxVars, lifeVars, frameVars>>
    \/ OnDestroyReturn /\ UNCHANGED <<surfVars, inputVars, gfxVars, lifeVars, frameVars>>

RunStep ==
    \/ OnSetupCall \/ OnSetupReturn \/ LoopCheck \/ BeginFrame \/ OnUpdateCall
    \/ OnUpdateReturn \/ EndFrame \/ SwapBuffers \/ PollEvents \/ OnDestroyCall
    \/ OnDestroyReturn

SpecLive == Init /\ [][NextLive]_vars /\ WF_vars(RunStep /\ NextLive)

\* one drawing call with int channels inside and outside 0..255, applied to a
\* new surface
ChannelInputs == {-1, 0, 255, 256, 300}

LineChannelInputs == {<<256, -1, 300>>, <<-1, 0, 255>>}

InitChannels ==
    /\ InitSurface(MaxWidth, MaxHeight)
    /\ InitInput
    /\ InitLoop
    /\ InitConstructed
    /\ InitFrame

NextChannels ==
    /\ lastOp.op = "construct"
    /\ \/ (\E x \in XCoords, y \in YCoords, r \in ChannelInputs, g \in ChannelInputs,
              b \in ChannelInputs : DrawPixelRGB(x, y, r, g, b))
          /\ UNCHANGED <<inputVars, loopVars, gfxVars, lifeVars>>
       \/ (\E x1 \in XCoords, y1 \in YCoords, x2 \in XCoords, y2 \in YCoords,
              t \in LineChannelInputs : DrawLine(x1, y1, x2, y2, t[1], t[2], t[3]))
          /\ UNCHANGED <<inputVars, loopVars, gfxVars, lifeVars, frameVars>>

SpecChannels == InitChannels /\ [][NextChannels]_vars

\* an Engine from construction to destruction whose window receives input
\* events while run() is in window->pollEvents()
NextTeardown ==
    \/ NextLifecycle
    \/ pc = "poll" /\ (\E e \in PollKeyInputs : KeyCallbackGLFW(e[1], e[2]))
          /\ UNCHANGED <<surfVars, loopVars, gfxVars, lifeVars, frameVars>>
    \/ pc = "poll" /\ (\E e \in PollButtonInputs : MouseButtonCallbackGLFW(e[1], e[2]))
          /\ UNCHANGED <<surfVars, loopVars, gfxVars, lifeVars, frameVars>>
    \/ pc = "poll" /\ (\E e \in PollCursorInputs : CursorPositionCallbackGLFW(e[1], e[2]))
          /\ UNCHANGED <<surfVars, loopVars, gfxVars, lifeVars, frameVars>>

SpecTeardown == InitLifecycle /\ [][NextTeardown]_vars

----------------------------------------------------------------------------
(* Properties of Engine::run                                               *)

Last(seq) == seq[Len(seq)]
Count(seq, e) == Cardinality({i \in 1..Len(seq) : seq[i] = e})

\* the event that may follow another inside one run() in which nothing throws
FollowsInRun(a, b) ==
    \/ a = "onSetup"           /\ b \in {"shouldClose:false", "shouldClose:true"}
    \/ a = "shouldClose:false" /\ b = "beginFrame"
    \/ a = "beginFrame"        /\ b = "onUpdate"
    \/ a = "onUpdate"          /\ b = "endFrame"
    \/ a = "endFrame"          /\ b = "swapBuffers"
    \/ a = "swapBuffers"       /\ b = "pollEvents"
    \/ a = "pollEvents"        /\ b \in {"shouldClose:false", "shouldClose:true"}
    \/ a = "shouldClose:true"  /\ b = "onDestroy"
    \/ a = "onDestroy"         /\ b = "return"

\* C1: the events of a run() in which no callback fails are onSetup once, then
\* whole frames beginFrame, onUpdate, endFrame, swapBuffers, pollEvents in this
\* order, then onDestroy; shouldClose is evaluated only before a frame (after
\* onSetup or after the previous frame's pollEvents), and nothing follows the
\* end of the run.
C1_RunSequence ==
    /\ Len(trace) > 0 => trace[1] = "onSetup"
    /\ \A i \in 1..(Len(trace) - 1) :
          /\ trace[i] \notin {"return", "throw"}
          /\ trace[i + 1] # "throw" => FollowsInRun(trace[i], trace[i + 1])
    /\ (pc = "idle" /\ Len(trace) > 0) => Last(trace) \in {"return", "throw"}

\* C1 witness: a run of at least two frames has returned
C1_Witness ==
    /\ pc = "idle"
    /\ Len(trace) > 0
    /\ Last(trace) = "return"
    /\ Count(trace, "onUpdate") >= 2

\* C5: in a run() that returns, onDestroy is invoked exactly once; it comes right
\* after shouldClose was observed true, itself after the last frame's pollEvents
\* or, with no frame at all, after onSetup; only the end of the run follows it.
C5_DestroyOnce ==
    /\ Count(trace, "onDestroy") <= 1
    /\ \A i \in 1..Len(trace) :
          trace[i] = "onDestroy" =>
             /\ i >= 3
             /\ trace[i - 1] = "shouldClose:true"
             /\ trace[i - 2] \in {"pollEvents", "onSetup"}
             /\ \A j \in (i + 1)..Len(trace) : trace[j] \in {"return", "throw"}
    /\ (Len(trace) > 0 /\ Last(trace) = "return") =>
          /\ Count(trace, "onDestroy") = 1
          /\ trace[Len(trace) - 1] = "onDestroy"

\* C5 witness: a run entered with the close request already set has returned
\* after onSetup and onDestroy, with no frame
C5_Witness ==
    /\ pc = "idle"
    /\ trace = <<"onSetup", "shouldClose:true", "onDestroy", "return">>

\* C6 (as claimed): over the lifetime of one Engine, onSetup is invoked at most
\* once, and no callback is invoked after onDestroy has been invoked.
C6_SetupOnceDestroyedTerminal ==
    /\ setupCalls <= 1
    /\ ~callAfterDestroy

\* C7 (as claimed): the first deltaTime of a run is the clock reading at the start
\* of the first iteration minus the reading when onSetup returned.
C7_FirstDeltaFromSetupReturn ==
    Len(deltas) >= 1 => deltas[1] = iterStarts[1] - setupReturnedAt

\* C8: every deltaTime passed to onUpdate after the first frame is the difference
\* of the clock readings at the start of this and of the previous iteration, no
\* deltaTime is negative, and previousTime always holds the reading taken at the
\* start of the latest iteration (one overwrite per iteration).
C8_DeltaBetweenIterations ==
    /\ Len(deltas) <= Len(iterStarts)
    /\ Len(iterStarts) = frames
    /\ \A i \in 2..Len(deltas) : deltas[i] = iterStarts[i] - iterStarts[i - 1]
    /\ \A i \in 1..Len(deltas) : deltas[i] >= 0
    /\ Len(iterStarts) > 0 => previousTime = Last(iterStarts)

\* C8 witness: a second frame whose deltaTime differs from the first one's
C8_Witness ==
    /\ Len(deltas) >= 2
    /\ deltas[1] > 0
    /\ deltas[2] > deltas[1]

\* C13: a throw is the last event of its run() and comes right after the call of
\* the callback that threw; after a throw from onSetup the run holds nothing but
\* onSetup, after a throw from onUpdate the frame's endFrame, swapBuffers and
\* pollEvents, any later frame and onDestroy are missing, and no callback is
\* called again for the step that threw.
C13_CallbackErrorsPropagate ==
    \A i \in 1..Len(trace) :
       trace[i] = "throw" =>
          /\ i = Len(trace)
          /\ pc = "idle"
          /\ i > 1
          /\ trace[i - 1] \in {"onSetup", "onUpdate", "onDestroy"}
          /\ trace[i - 1] = "onSetup" =>
                /\ i = 2
                /\ Count(trace, "beginFrame") = 0
                /\ Count(trace, "onUpdate") = 0
                /\ Count(trace, "onDestroy") = 0
          /\ trace[i - 1] = "onUpdate" =>
                /\ Count(trace, "onDestroy") = 0
                /\ Count(trace, "endFrame") = Count(trace, "onUpdate") - 1
                /\ Count(trace, "swapBuffers") = Count(trace, "onUpdate") - 1
                /\ Count(trace, "pollEvents") = Count(trace, "onUpdate") - 1
                /\ Count(trace, "beginFrame") = Count(trace, "onUpdate")
          /\ trace[i - 1] = "onDestroy" => Count(trace, "onDestroy") = 1
          /\ Count(trace, "onSetup") = 1

\* C13 witness: onUpdate threw in the second frame of a run
C13_Witness ==
    /\ Len(trace) > 1
    /\ Last(trace) = "throw"
    /\ trace[Len(trace) - 1] = "onUpdate"
    /\ Count(trace, "onUpdate") = 2

\* C19: the state read by isKeyPressed, isMousePressed and getMousePosition and
\* the close flag change only while run() is in its pollEvents step, which comes
\* right after swapBuffers; no callback is running then, so an event handled in
\* the poll of one frame is seen by the application from the next onUpdate on.
C19_InputChangesOnlyInPoll ==
    [][/\ (<<keyState, mouseState, mouseX, mouseY, inputLog>>' #
              <<keyState, mouseState, mouseX, mouseY, inputLog>>
           \/ closeFlag' # closeFlag)
          => /\ pc = "poll"
             /\ pc' \in {"poll", "check"}
             /\ Last(trace) = "swapBuffers"
       /\ (pc' = "poll" /\ pc # "poll") => pc = "swap"
       /\ pc' = "inUpdate" => UNCHANGED <<keyState, mouseState, mouseX, mouseY>>]_vars

\* C19 witness: a key press handled in the poll of the first frame is read as
\* pressed inside the second frame's onUpdate
C19_Witness ==
    /\ pc = "inUpdate"
    /\ Count(trace, "onUpdate") = 2
    /\ Len(inputLog) > 0
    /\ inputLog[1].kind = "key" /\ inputLog[1].b = "press"
    /\ IsKeyPressed(inputLog[1].a)

\* run() has returned normally
RunReturned == pc = "idle" /\ trace # <<>> /\ Last(trace) = "return"

\* C20: onUpdate is never invoked while the close flag is set; a frame whose
\* beginFrame has run goes on to the end of its pollEvents; and when the close
\* flag is set during a run() whose callbacks return, run() returns after
\* invoking onDestroy.
C20_CloseEndsRunAfterFrame ==
    /\ [](pc \in {"update", "inUpdate"} => ~closeFlag)
    /\ [](RunReturned => Count(trace, "onDestroy") = 1 /\ closeFlag)
    /\ (pc = "update") ~> (pc = "check" /\ Last(trace) = "pollEvents")
    /\ (closeFlag /\ pc # "idle") ~> RunReturned

\* C20 witness: the close flag was set by the poll of the second frame and run()
\* has returned
C20_Witness ==
    /\ RunReturned
    /\ closeFlag
    /\ Count(trace, "pollEvents") = 2
    /\ Count(trace, "onUpdate") = 2
    /\ Count(trace, "onDestroy") = 1

----------------------------------------------------------------------------
(* Properties of the Surface                                               *)

OutOfBounds(x, y) == x < 0 \/ x >= width \/ y < 0 \/ y >= height

Channels(c) == <<ColorR(c), ColorG(c), ColorB(c), ColorA(c)>>

\* C2: after setPixel(x, y, Color(r, g, b, a)) with (x, y) in bounds, getPixel(x, y)
\* returns the colour (r, g, b, a), the cell at index y*width+x holds
\* a<<24 | r<<16 | g<<8 | b, and no other cell was changed.
C2_SetGetRoundTrip ==
    (/\ lastOp.op = "setPixelColor"
     /\ lastOp.x \in 0..(width - 1)
     /\ lastOp.y \in 0..(height - 1))
    =>
    LET x == lastOp.x
        y == lastOp.y
        c == lastOp.color
    IN  /\ Channels(GetPixel(x, y)) = c
        /\ pixelBuffer[y * width + x] = <<c[4], c[1], c[2], c[3]>>
        /\ lastOp.changed \subseteq {y * width + x}

\* C2 witness: an in-bounds setPixel of a colour whose alpha is not 255, on a
\* surface of more than one cell that already holds a written cell elsewhere
C2_Witness ==
    /\ lastOp.op = "setPixelColor"
    /\ ~OutOfBounds(lastOp.x, lastOp.y)
    /\ lastOp.color[4] # 255
    /\ \E i \in DOMAIN pixelBuffer :
          i # lastOp.y * width + lastOp.x /\ pixelBuffer[i] # <<255, 0, 0, 0>>

\* C3: a setPixel (either overload) at a position out of bounds on either axis
\* changes no cell of the buffer, and getPixel at every such position returns
\* opaque black (0, 0, 0, 255), whatever the buffer holds.
C3_OutOfBoundsIgnored ==
    /\ (/\ lastOp.op \in {"setPixelColor", "setPixelRGB"}
         /\ OutOfBounds(lastOp.x, lastOp.y))
        => lastOp.changed = {}
    /\ \A x \in XCoords, y \in YCoords :
          OutOfBounds(x, y) => Channels(GetPixel(x, y)) = <<0, 0, 0, 255>>

\* C3 witness: a setPixel out of bounds whose y*width+x is the index of a cell,
\* after that cell was written
C3_Witness ==
    /\ lastOp.op \in {"setPixelColor", "setPixelRGB"}
    /\ OutOfBounds(lastOp.x, lastOp.y)
    /\ lastOp.y * width + lastOp.x \in DOMAIN pixelBuffer
    /\ pixelBuffer[lastOp.y * width + lastOp.x] # <<255, 0, 0, 0>>

\* C4: right after construction and right after every clear(), every cell is
\* 0xFF000000; the buffer always has exactly width*height cells.
C4_ClearedIsOpaqueBlack ==
    /\ DOMAIN pixelBuffer = 0..(width * height - 1)
    /\ Cardinality(DOMAIN pixelBuffer) = width * height
    /\ lastOp.op \in {"construct", "clear"} =>
          \A i \in 0..(width * height - 1) : pixelBuffer[i] = <<255, 0, 0, 0>>

\* C4 witness: a clear() of a surface of more than one cell after a write
C4_Witness ==
    /\ lastOp.op = "clear"
    /\ everWritten
    /\ width * height > 1

----------------------------------------------------------------------------
(* Properties of the Input                                                 *)

\* the action of the most recent press or release among the first n entries of
\* the log for identifier id of the given kind; "none" when there is none
RECURSIVE LastPressRelease(_, _, _, _)
LastPressRelease(log, n, kind, id) ==
    IF n = 0 THEN "none"
    ELSE IF /\ log[n].kind = kind
            /\ log[n].a = id
            /\ log[n].b \in {"press", "release"}
         THEN log[n].b
         ELSE LastPressRelease(log, n - 1, kind, id)

\* the callback of the most recent registration among the first n entries
RECURSIVE Registered(_, _)
Registered(log, n) ==
    IF n = 0 THEN "none"
    ELSE IF log[n].kind = "set" THEN log[n].a
    ELSE Registered(log, n - 1)

\* the callback invocations the first n entries of the log call for: one per key
\* event delivered while a callback is registered, made by that callback with
\* the event's key and action, seeing the pressed state the event leaves
RECURSIVE ExpectedCalls(_, _)
ExpectedCalls(log, n) ==
    IF n = 0 THEN <<>>
    ELSE IF log[n].kind = "key" /\ Registered(log, n - 1) # "none"
         THEN Append(ExpectedCalls(log, n - 1),
                     [cb |-> Registered(log, n - 1), key |-> log[n].a,
                      action |-> log[n].b,
                      pressed |-> LastPressRelease(log, n, "key", log[n].a) = "press"])
         ELSE ExpectedCalls(log, n - 1)

QueryIds == Keys \cup Buttons \cup {1}

\* C9: isKeyPressed(k) is true exactly when the most recent press or release of
\* key k was a press (false when there was none), and likewise isMousePressed(b)
\* over mouse-button events; a repeat changes nothing.
C9_PressedIsLastPressRelease ==
    \A id \in QueryIds :
       /\ IsKeyPressed(id) =
             (LastPressRelease(inputLog, Len(inputLog), "key", id) = "press")
       /\ IsMousePressed(id) =
             (LastPressRelease(inputLog, Len(inputLog), "mouse", id) = "press")

\* C9 witness: the last event is a repeat of a key that was pressed before and
\* still reads pressed, while another key that only got a repeat reads released
C9_Witness ==
    /\ Len(inputLog) >= 3
    /\ Last(inputLog).kind = "key"
    /\ Last(inputLog).b = "repeat"
    /\ IsKeyPressed(Last(inputLog).a)
    /\ \E k \in Keys :
          /\ ~IsKeyPressed(k)
          /\ \E i \in 1..Len(inputLog) :
                inputLog[i].kind = "key" /\ inputLog[i].a = k /\ inputLog[i].b = "repeat"

\* C10: the callback invocations are exactly, in order, one per key event
\* delivered while a callback is registered, each made by the most recently
\* registered callback with the event's (key, action) after the pressed state was
\* updated; mouse-button and cursor events and key events with no callback
\* registered invoke nothing.
C10_CallbackPerKeyEvent ==
    calls = ExpectedCalls(inputLog, Len(inputLog))

\* C10 witness: a callback was invoked, then replaced, and the next key event
\* invoked the new one
C10_Witness ==
    /\ Len(calls) >= 2
    /\ calls[1].cb # calls[2].cb

\* the position of the most recent cursor event among the first n entries of the
\* log; (0, 0) when there is none
RECURSIVE LastCursor(_, _)
LastCursor(log, n) ==
    IF n = 0 THEN <<0, 0>>
    ELSE IF log[n].kind = "cursor" THEN <<log[n].a, log[n].b>>
    ELSE LastCursor(log, n - 1)

\* C11: getMousePosition() is (0, 0) before the first cursor event and the
\* coordinates of the most recent cursor event afterwards, whatever key and
\* mouse-button events come in between; a cursor event leaves every key and
\* button state as it was before it.
C11_CursorIsLastMove ==
    /\ GetMousePosition = LastCursor(inputLog, Len(inputLog))
    /\ (Len(inputLog) > 0 /\ Last(inputLog).kind = "cursor") =>
          \A id \in QueryIds :
             /\ IsKeyPressed(id) =
                   (LastPressRelease(inputLog, Len(inputLog) - 1, "key", id) = "press")
             /\ IsMousePressed(id) =
                   (LastPressRelease(inputLog, Len(inputLog) - 1, "mouse", id) = "press")

\* C11 witness: two cursor events at different positions, then a key press and a
\* button press; the position is the second one and the key reads pressed
C11_Witness ==
    /\ Len(inputLog) = 4
    /\ inputLog[1].kind = "cursor"
    /\ inputLog[2].kind = "cursor"
    /\ <<inputLog[1].a, inputLog[1].b>> # <<inputLog[2].a, inputLog[2].b>>
    /\ inputLog[3].kind = "key" /\ inputLog[3].b = "press"
    /\ inputLog[4].kind = "mouse" /\ inputLog[4].b = "press"
    /\ GetMousePosition = <<inputLog[2].a, inputLog[2].b>>
    /\ IsKeyPressed(inputLog[3].a)

----------------------------------------------------------------------------
(* Properties of construction and destruction                              *)

\* C12: once the lifecycle of a Graphics object is over, by destruction or by a
\* constructor that failed, every OpenGL object it created has been released, and
\* at no time has one been released twice.
C12_ResourcesReleasedOnce ==
    /\ \A r \in Resources : gpu[r] # "released twice"
    /\ graphicsObj \in {"failed", "destroyed"} =>
          \A r \in Resources : gpu[r] \in {"none", "released"}

GraphicsErrors == {"glad", "vertexShader", "fragmentShader", "link"}

\* C17: when the Window constructor fails no Graphics and no Input exists; when
\* the Graphics constructor fails afterwards the window has been destroyed and
\* glfwTerminate has been called exactly once, and no Input exists; in both
\* cases the Engine constructor has failed and no callback is ever invoked.
C17_ConstructionFailureIsFatal ==
    /\ ctorError \in {"glfwInit", "createWindow"} =>
          graphicsObj = "none" /\ inputObj = "none" /\ windowHandle = "none"
    /\ ctorError \in GraphicsErrors =>
          /\ graphicsObj = "failed"
          /\ inputObj = "none"
          /\ windowHandle = "destroyed"
          /\ glfw.terminateCalls = 1
    /\ ctorError # "none" =>
          /\ life = "failed"
          /\ pc = "idle" /\ runs = 0 /\ trace = <<>>
          /\ setupCalls = 0 /\ destroyCalls = 0 /\ deltas = <<>>

\* C17 witness: linking failed after both shaders compiled; the window is gone
\* and the library was terminated once
C17_Witness ==
    /\ ctorError = "link"
    /\ gpu["program"] = "live"
    /\ windowHandle = "destroyed"
    /\ glfw.terminateCalls = 1

----------------------------------------------------------------------------
(* Properties of the drawing calls                                         *)

Sgn(v) == IF v < 0 THEN -1 ELSE IF v > 0 THEN 1 ELSE 0

Max(a, b) == IF a > b THEN a ELSE b

\* the cells of the segment from (x1, y1) to (x2, y2) when it is horizontal,
\* vertical or diagonal
SegmentCells(x1, y1, x2, y2) ==
    {Index(x1 + k * Sgn(x2 - x1), y1 + k * Sgn(y2 - y1)) :
        k \in 0..Max(Abs(x2 - x1), Abs(y2 - y1))}

\* C14: a drawLine between two points of the surface that is horizontal, vertical
\* or a 45-degree diagonal, in either direction, changes exactly the cells of the
\* segment, and each of them holds the given colour with alpha 255.
C14_StraightLineExact ==
    (/\ lastOp.op = "drawLine"
     /\ InBounds(lastOp.x, lastOp.y)
     /\ InBounds(lastOp.x2, lastOp.y2)
     /\ \/ lastOp.x = lastOp.x2
        \/ lastOp.y = lastOp.y2
        \/ Abs(lastOp.x2 - lastOp.x) = Abs(lastOp.y2 - lastOp.y))
    => /\ lastOp.changed = SegmentCells(lastOp.x, lastOp.y, lastOp.x2, lastOp.y2)
       /\ \A i \in SegmentCells(lastOp.x, lastOp.y, lastOp.x2, lastOp.y2) :
             pixelBuffer[i] = <<255, lastOp.color[1], lastOp.color[2], lastOp.color[3]>>
       /\ \A i \in DOMAIN pixelBuffer :
             i \notin SegmentCells(lastOp.x, lastOp.y, lastOp.x2, lastOp.y2) =>
                pixelBuffer[i] = OpaqueBlack

\* C14 witness: the line (0,0)-(3,3) has set the four cells of the diagonal
C14_Witness ==
    /\ lastOp.op = "drawLine"
    /\ <<lastOp.x, lastOp.y, lastOp.x2, lastOp.y2>> = <<0, 0, 3, 3>>
    /\ lastOp.changed = {Index(0, 0), Index(1, 1), Index(2, 2), Index(3, 3)}
    /\ Len(lastOp.positions) = 4

\* the texture holds the last uploaded frame and frameWrites the writes of that
\* frame: from endFrame until the next beginFrame
FrameUploaded == pc \notin {"update", "inUpdate", "end"}

\* C15: endFrame uploads the whole buffer as it is: a cell whose last write in the
\* frame's onUpdate was drawPixel with channels (r, g, b) and alpha 255 is uploaded
\* as 0xFF000000 | r<<16 | g<<8 | b at index y*width+x, and a cell not written in
\* the frame is uploaded as 0xFF000000.
C15_UploadIsFrameBuffer ==
    /\ pc = "swap" => texture = pixelBuffer
    /\ FrameUploaded =>
          \A i \in DOMAIN texture :
             /\ frameWrites[i] = NoColor => texture[i] = <<255, 0, 0, 0>>
             /\ (frameWrites[i] # NoColor /\ frameWrites[i][4] = 255) =>
                   texture[i] = <<255, frameWrites[i][1], frameWrites[i][2],
                                  frameWrites[i][3]>>

\* C15 witness: the second frame of a run drew red at (1, 1) only, after a first
\* frame that drew at (0, 0); cell y*width+x of the upload is 0xFFFF0000
C15_Witness ==
    /\ pc = "swap"
    /\ Count(trace, "endFrame") = 2
    /\ frameWrites[1 * width + 1] = <<255, 0, 0, 255>>
    /\ frameWrites[0] = NoColor
    /\ texture[1 * width + 1] = <<255, 255, 0, 0>>
    /\ texture[0] = <<255, 0, 0, 0>>

\* C16: after drawPixel(x, y, c) with a Color c the in-bounds cell (x, y) holds
\* c.a<<24 | c.r<<16 | c.g<<8 | c.b, whatever the alpha; after the overload taking
\* r, g, b the alpha byte of the cell is 255.
C16_DrawPixelKeepsAlpha ==
    (lastOp.op = "setPixelRGB" /\ lastDraw.op # "none"
        /\ InBounds(lastDraw.x, lastDraw.y)) =>
       /\ lastDraw.op = "drawPixelColor" =>
             pixelBuffer[Index(lastDraw.x, lastDraw.y)] =
                <<lastDraw.color[4], lastDraw.color[1], lastDraw.color[2],
                  lastDraw.color[3]>>
       /\ lastDraw.op = "drawPixelRGB" =>
             pixelBuffer[Index(lastDraw.x, lastDraw.y)][1] = 255

AllOpaqueBlack(buf) == \A i \in DOMAIN buf : buf[i] = OpaqueBlack

\* C18: when onUpdate is invoked every cell of the surface is opaque black, and
\* every cell of an uploaded buffer that is not opaque black was written by the
\* onUpdate of the uploaded frame.
C18_FrameStartsBlack ==
    /\ pc = "update" => AllOpaqueBlack(pixelBuffer)
    /\ (pc = "inUpdate" /\ \A i \in DOMAIN frameWrites : frameWrites[i] = NoColor) =>
          AllOpaqueBlack(pixelBuffer)
    /\ FrameUploaded =>
          \A i \in DOMAIN texture : texture[i] # OpaqueBlack => frameWrites[i] # NoColor

\* C18 witness: onSetup drew in bounds and the first frame's onUpdate is about to
\* be invoked
C18_Witness ==
    /\ pc = "update"
    /\ runs = 1
    /\ Count(trace, "beginFrame") = 1
    /\ everWritten
    /\ lastDraw.op # "none"

\* C21: for every cell of an uploaded frame written by that frame's onUpdate, the
\* red, green and blue of the texel the GPU reads are the red, green and blue the
\* application passed, and its alpha is 255 when the application drew opaque.
C21_UploadKeepsChannels ==
    FrameUploaded =>
       \A i \in DOMAIN texture :
          frameWrites[i] # NoColor =>
             /\ Presented(i).r = frameWrites[i][1]
             /\ Presented(i).g = frameWrites[i][2]
             /\ Presented(i).b = frameWrites[i][3]
             /\ frameWrites[i][4] = 255 => Presented(i).a = 255

\* C22: drawLine between any two endpoints, on or off the surface, terminates
\* after plotting max(|x2-x1|, |y2-y1|) + 1 positions: the first is (x1, y1), the
\* last is (x2, y2), consecutive positions differ by at most 1 on each axis and by
\* exactly 1 on the major axis, all lie in the bounding box of the endpoints; the
\* cells set are exactly the in-bounds positions, the others are dropped.
C22_LinePositions ==
    lastOp.op = "drawLine" =>
       LET p  == lastOp.positions
           x1 == lastOp.x
           y1 == lastOp.y
           x2 == lastOp.x2
           y2 == lastOp.y2
           dx == Abs(x2 - x1)
           dy == Abs(y2 - y1)
           lo(a, b) == IF a < b THEN a ELSE b
       IN  /\ Len(p) = Max(dx, dy) + 1
           /\ p[1] = <<x1, y1>>
           /\ p[Len(p)] = <<x2, y2>>
           /\ \A k \in 1..(Len(p) - 1) :
                 /\ Abs(p[k + 1][1] - p[k][1]) <= 1
                 /\ Abs(p[k + 1][2] - p[k][2]) <= 1
                 /\ dx >= dy => Abs(p[k + 1][1] - p[k][1]) = 1
                 /\ dy >= dx => Abs(p[k + 1][2] - p[k][2]) = 1
           /\ \A k \in 1..Len(p) :
                 /\ p[k][1] >= lo(x1, x2) /\ p[k][1] <= Max(x1, x2)
                 /\ p[k][2] >= lo(y1, y2) /\ p[k][2] <= Max(y1, y2)
           /\ lastOp.changed =
                 {Index(p[k][1], p[k][2]) :
                     k \in {j \in 1..Len(p) : ~OutOfBounds(p[j][1], p[j][2])}}
           /\ \A i \in DOMAIN pixelBuffer :
                 pixelBuffer[i] = IF i \in lastOp.changed
                                  THEN <<255, lastOp.color[1], lastOp.color[2],
                                         lastOp.color[3]>>
                                  ELSE OpaqueBlack

\* C22 witness: a line that is neither straight nor diagonal, from a corner of the
\* surface to a position one past its right edge; the last position is dropped
C22_Witness ==
    /\ lastOp.op = "drawLine"
    /\ <<lastOp.x, lastOp.y, lastOp.x2, lastOp.y2>> = <<0, 0, width, 2>>
    /\ Len(lastOp.positions) = width + 1
    /\ Cardinality(lastOp.changed) = width
    /\ pixelBuffer[Index(0, 3)] = OpaqueBlack

\* the value in 0..255 that differs from c by a multiple of 256
Mod256(c) == CHOOSE v \in 0..255 : \E k \in -4..4 : c = v + 256 * k

\* the cell 0xFF000000 | (r mod 256)<<16 | (g mod 256)<<8 | (b mod 256)
ExpectedCell(color) == <<255, Mod256(color[1]), Mod256(color[2]), Mod256(color[3])>>

\* C23: drawPixel(x, y, r, g, b) and drawLine(..., r, g, b) with int channels store
\* r mod 256, g mod 256 and b mod 256 in the in-bounds cells they set (256 stores
\* 0, -1 stores 255) with alpha 255: nothing is clamped or rejected, and no bit of
\* a channel reaches another channel or alpha.
C23_ChannelsModulo256 ==
    /\ Mod256(256) = 0 /\ Mod256(-1) = 255
    /\ (lastOp.op = "setPixelRGB" /\ lastDraw.op = "drawPixelRGB"
           /\ ~OutOfBounds(lastDraw.x, lastDraw.y)) =>
          pixelBuffer[Index(lastDraw.x, lastDraw.y)] = ExpectedCell(lastDraw.color)
    /\ lastOp.op = "drawLine" =>
          \A k \in 1..Len(lastOp.positions) :
             ~OutOfBounds(lastOp.positions[k][1], lastOp.positions[k][2]) =>
                pixelBuffer[Index(lastOp.positions[k][1], lastOp.positions[k][2])] =
                   ExpectedCell(lastOp.color)

\* C23 witness: drawPixel with channels 256, -1 and 300 stored 0, 255 and 44
C23_Witness ==
    /\ lastDraw.op = "drawPixelRGB"
    /\ lastDraw.color = <<256, -1, 300>>
    /\ ~OutOfBounds(lastDraw.x, lastDraw.y)
    /\ pixelBuffer[Index(lastDraw.x, lastDraw.y)] = <<255, 0, 255, 44>>

\* C24: a constructed Engine is torn down in the order Input, Graphics, Window:
\* every OpenGL object is created and released while the window exists and
\* before glfwTerminate, the window is destroyed and glfwTerminate called once,
\* as the last step, and an input handler runs only inside the pollEvents step of
\* run() with the Input object alive.
C24_TeardownOrder ==
    /\ [](ctorError = "none" =>
             /\ graphicsObj = "destroyed" => inputObj = "destroyed"
             /\ windowHandle = "destroyed" =>
                   /\ graphicsObj = "destroyed" /\ inputObj = "destroyed"
                   /\ life = "destroyed"
                   /\ \A r \in Resources : gpu[r] = "released"
             /\ glfw.terminateCalls = (IF life = "destroyed" THEN 1 ELSE 0)
             /\ life = "destroyed" => windowHandle = "destroyed" /\ pc = "idle")
    /\ [][/\ (gpu' # gpu /\ ctorError' = "none") =>
             /\ windowHandle = "created" /\ windowHandle' = "created"
             /\ glfw.terminateCalls = 0 /\ glfw'.terminateCalls = 0
          /\ inputLog' # inputLog =>
             /\ inputObj = "alive" /\ inputObj' = "alive"
             /\ pc = "poll"]_vars

\* C24 witness: an Engine that handled an input event during run() has been
\* destroyed completely
C24_Witness ==
    /\ life = "destroyed"
    /\ Len(inputLog) > 0
    /\ inputObj = "destroyed" /\ graphicsObj = "destroyed" /\ windowHandle = "destroyed"
    /\ glfw.terminateCalls = 1
    /\ \A r \in Resources : gpu[r] = "released"

====
